---- MODULE Spec2Model ----
(***************************************************************************)
(* Segment tree without range updates                                      *)
(* (src/algorithms_and_data_structures/segment_tree.rs).                   *)
(*                                                                         *)
(* The tree is a Vec<i64>; slot k of the Rust vector is tree[k+1] here     *)
(* (TLA+ sequences start at 1), read through At.  A caller builds a tree   *)
(* from a vector of elements and then calls set_nth, nth and sum on it     *)
(* with arbitrary usize arguments.  An out-of-bounds vector index panics;  *)
(* a panic ends the run.  Element values are kept small, so no i64         *)
(* addition overflows.                                                      *)
(***************************************************************************)
EXTENDS Integers, Sequences, FiniteSets, TLC

\* longest generated input vector
MaxLen == 3
\* largest element index / range bound a caller passes
MaxIdx == 3

\* element values: the value written by the test, the padding value, a positive one
Value == {-42, 0, 3}

\* the vector of the three tests and the tree test_representation expects
TestElements == <<3, 1, 4, 1, 5, 9, 2, 6>>
TestTree == <<31, 9, 22, 4, 5, 14, 8, 3, 1, 4, 1, 5, 9, 2, 6>>

Index == 0..MaxIdx

RECURSIVE SeqsUpTo(_)
SeqsUpTo(k) ==
  IF k = 0 THEN {<<>>}
  ELSE SeqsUpTo(k - 1) \cup [1..k -> Value]

Inputs == SeqsUpTo(MaxLen) \cup {TestElements}

VARIABLES
  input,   \* the element vector the caller holds before build (moved into build)
  n,       \* the caller's element count, array.len()
  tree,    \* the node buffer, <<>> before build
  pc,      \* "start", "built" or "panicked"
  last,    \* the most recent call: operation, arguments, outcome, return value
  prev,    \* the call before it, reduced to operation and (for set) index and value
  stdin,   \* main: the lines on standard input, each a sequence of characters
  out,     \* main: the lines printed so far
  bi,      \* segment_tree run statement by statement: the loop index
  bread,   \* segment_tree run statement by statement: the slots read as a child
  mode,    \* set_nth run access by access: "racy" or "mutex"
  lock,    \* set_nth run access by access: the caller holding the buffer, 0 if none
  proc     \* set_nth run access by access: per caller, arguments, position and locals

\* the variables of main, of the stepwise segment_tree and of the stepwise set_nth
aux == <<stdin, out, bi, bread, mode, lock, proc>>

vars == <<input, n, tree, pc, last, prev, stdin, out, bi, bread, mode, lock, proc>>

----------------------------------------------------------------------------
(* Pure functions of the source *)

\* tree[k] of the Rust vector
At(t, k) == t[k + 1]

\* Vec indexing panics unless k < len
InBounds(t, k) == k < Len(t)

\* variant of pow2_from: the result is strictly greater than k
RECURSIVE pow2_from_strict(_, _)
pow2_from_strict(p, k) == IF p > k THEN p ELSE pow2_from_strict(2 * p, k)

\* usize::next_power_of_two: smallest power of two >= k, 1 for k = 0
RECURSIVE pow2_from(_, _)
pow2_from(p, k) == IF p >= k THEN p ELSE pow2_from(2 * p, k)

next_power_of_two(k) == pow2_from(1, k)

\* for (i, value) in elements.into_iter().enumerate() { tree[n / 2 + i] = value; }
RECURSIVE copy_leaves(_, _, _)
copy_leaves(t, elements, i) ==
  IF i >= Len(elements) THEN t
  ELSE copy_leaves([t EXCEPT ![(Len(t) \div 2) + i + 1] = elements[i + 1]],
                   elements, i + 1)

\* variant of recompute: the first child is added twice
recompute_first_child_twice(t, i) ==
  [t EXCEPT ![i + 1] = At(t, i * 2 + 1) + At(t, i * 2 + 1)]

\* tree[i] = tree[i * 2 + 1] + tree[i * 2 + 2]
recompute(t, i) == [t EXCEPT ![i + 1] = At(t, i * 2 + 1) + At(t, i * 2 + 2)]

\* variant of build_pass: the pass runs over (1..(n / 2)).rev() and skips the root
RECURSIVE build_pass_skips_root(_, _)
build_pass_skips_root(t, i) ==
  IF i <= 1 THEN t
  ELSE build_pass_skips_root(recompute(t, i - 1), i - 1)

\* for i in (0..(n / 2)).rev() { ... }: i is the next index to compute plus one
RECURSIVE build_pass(_, _)
build_pass(t, i) ==
  IF i = 0 THEN t
  ELSE build_pass(recompute(t, i - 1), i - 1)

segment_tree(elements) ==
  LET len  == next_power_of_two(Len(elements)) * 2 - 1
      zero == [k \in 1..len |-> 0]
  IN  build_pass(copy_leaves(zero, elements, 0), len \div 2)

\* index of element i into index of node
leaf(t, i) == (Len(t) \div 2) + i

\* variant of walk_up: the loop condition is i > 1
RECURSIVE walk_up_stops_early(_, _)
walk_up_stops_early(t, i) ==
  IF i > 1 THEN walk_up_stops_early(recompute(t, (i - 1) \div 2), (i - 1) \div 2)
  ELSE t

\* while i > 0 { i = (i - 1) / 2; tree[i] = tree[2 * i + 1] + tree[2 * i + 2]; }
RECURSIVE walk_up(_, _)
walk_up(t, i) ==
  IF i > 0 THEN walk_up(recompute(t, (i - 1) \div 2), (i - 1) \div 2)
  ELSE t

\* variant of set_nth: the leaf index is (tree.len() + i) / 2
set_nth_misplaced_leaf(t, i, value) ==
  walk_up([t EXCEPT ![((Len(t) + i) \div 2) + 1] = value], (Len(t) + i) \div 2)

\* set_nth, defined when leaf(t, i) is in bounds
set_nth(t, i, value) ==
  walk_up([t EXCEPT ![leaf(t, i) + 1] = value], leaf(t, i))

\* variant of nth: the element index is used as the node index
nth_no_offset(t, i) == At(t, i)

\* nth, defined when leaf(t, i) is in bounds
nth(t, i) == At(t, leaf(t, i))

\* variant of f: the two children are visited in swapped order
RECURSIVE f_swapped_children(_, _, _, _, _, _)
f_swapped_children(t, i, l, r, first, lst) ==
  IF first > r \/ lst < l THEN 0
  ELSE IF first <= l /\ r <= lst THEN At(t, i)
  ELSE f_swapped_children(t, i * 2 + 2, l, (l + r) \div 2, first, lst)
       + f_swapped_children(t, i * 2 + 1, ((l + r) \div 2) + 1, r, first, lst)

\* variant of f: the disjointness test is first >= r
RECURSIVE f_disjoint_too_wide(_, _, _, _, _, _)
f_disjoint_too_wide(t, i, l, r, first, lst) ==
  IF first >= r \/ lst < l THEN 0
  ELSE IF first <= l /\ r <= lst THEN At(t, i)
  ELSE f_disjoint_too_wide(t, i * 2 + 1, l, (l + r) \div 2, first, lst)
       + f_disjoint_too_wide(t, i * 2 + 2, ((l + r) \div 2) + 1, r, first, lst)

\* the inner function f of sum
RECURSIVE f(_, _, _, _, _, _)
f(t, i, l, r, first, lst) ==
  IF first > r \/ lst < l THEN 0
  ELSE IF first <= l /\ r <= lst THEN At(t, i)
  ELSE f(t, i * 2 + 1, l, (l + r) \div 2, first, lst)
       + f(t, i * 2 + 2, ((l + r) \div 2) + 1, r, first, lst)

sum(t, first, lst) == f(t, 0, 0, Len(t) \div 2, first, lst)

\* the invocations of f made by one evaluation of f: node, segment, nesting
\* depth and the branch taken ("disjoint" returns 0, "contained" reads
\* tree[i], "split" calls f on both children)
RECURSIVE f_calls(_, _, _, _, _, _, _)
f_calls(t, i, l, r, first, lst, depth) ==
  IF first > r \/ lst < l
  THEN {[i |-> i, l |-> l, r |-> r, depth |-> depth, branch |-> "disjoint"]}
  ELSE IF first <= l /\ r <= lst
  THEN {[i |-> i, l |-> l, r |-> r, depth |-> depth, branch |-> "contained"]}
  ELSE {[i |-> i, l |-> l, r |-> r, depth |-> depth, branch |-> "split"]}
       \cup f_calls(t, i * 2 + 1, l, (l + r) \div 2, first, lst, depth + 1)
       \cup f_calls(t, i * 2 + 2, ((l + r) \div 2) + 1, r, first, lst, depth + 1)

\* variant of sum_calls: the root segment is 0 ..= tree.len()
sum_calls_wide_root(t, first, lst) == f_calls(t, 0, 0, Len(t), first, lst, 1)

\* f(tree, 0, 0, tree.len() / 2, first, last)
sum_calls(t, first, lst) == f_calls(t, 0, 0, Len(t) \div 2, first, lst, 1)

----------------------------------------------------------------------------
(* Calls *)

Call(op, i, j, value, arg, outcome, ret) ==
  [op |-> op, i |-> i, j |-> j, value |-> value, arg |-> arg,
   outcome |-> outcome, ret |-> ret]

NoCall == Call("none", 0, 0, 0, <<>>, "ok", 0)

\* main and the stepwise runs are not started
AuxIdle ==
  /\ stdin = <<>>
  /\ out = <<>>
  /\ bi = 0
  /\ bread = {}
  /\ mode = "none"
  /\ lock = 0
  /\ proc = <<>>

Brief(c) ==
  IF c.op = "set" /\ c.outcome = "ok"
  THEN [op |-> "set", i |-> c.i, value |-> c.value]
  ELSE [op |-> c.op, i |-> 0, value |-> 0]

Init ==
  /\ input \in Inputs
  /\ n = Len(input)
  /\ tree = <<>>
  /\ pc = "start"
  /\ last = NoCall
  /\ prev = Brief(NoCall)
  /\ AuxIdle

\* let mut tree = segment_tree(array);
Build ==
  /\ pc = "start"
  /\ tree' = segment_tree(input)
  /\ input' = <<>>
  /\ pc' = "built"
  /\ last' = Call("build", 0, 0, 0, input, "ok", 0)
  /\ prev' = Brief(last)
  /\ UNCHANGED <<n, aux>>

\* set_nth(&mut tree, i, value)
Set ==
  /\ pc = "built"
  /\ \E i \in Index, value \in Value :
       IF InBounds(tree, leaf(tree, i))
       THEN /\ tree' = set_nth(tree, i, value)
            /\ last' = Call("set", i, 0, value, <<>>, "ok", 0)
            /\ pc' = "built"
       ELSE /\ tree' = tree
            /\ last' = Call("set", i, 0, value, <<>>, "panic", 0)
            /\ pc' = "panicked"
  /\ prev' = Brief(last)
  /\ UNCHANGED <<input, n, aux>>

\* nth(&tree, i)
Get ==
  /\ pc = "built"
  /\ \E i \in Index :
       IF InBounds(tree, leaf(tree, i))
       THEN /\ last' = Call("get", i, 0, 0, <<>>, "ok", nth(tree, i))
            /\ pc' = "built"
       ELSE /\ last' = Call("get", i, 0, 0, <<>>, "panic", 0)
            /\ pc' = "panicked"
  /\ prev' = Brief(last)
  /\ UNCHANGED <<input, n, tree, aux>>

\* sum(&tree, first, last)
Sum ==
  /\ pc = "built"
  /\ \E first \in Index, lst \in Index :
       last' = Call("sum", first, lst, 0, <<>>, "ok", sum(tree, first, lst))
  /\ prev' = Brief(last)
  /\ UNCHANGED <<input, n, tree, pc, aux>>

Next == Build \/ Set \/ Get \/ Sum

Spec == Init /\ [][Next]_vars

----------------------------------------------------------------------------
(* main: one line of standard input, build, print, set element 2, print *)

\* longest input line
MaxLine == 6

\* the characters of an input line: a digit, a sign, the separator, a letter
Char == {"3", "-", " ", "x"}

RECURSIVE LinesUpTo(_)
LinesUpTo(k) ==
  IF k = 0 THEN {<<>>}
  ELSE LinesUpTo(k - 1) \cup [1..k -> Char]

\* standard input: at end of file, or holding one line
Stdins == {<<>>} \cup {<<line>> : line \in LinesUpTo(MaxLine)}

Digits == <<"0", "1", "2", "3", "4", "5", "6", "7", "8", "9">>

IsDigit(c) == \E k \in 1..10 : Digits[k] = c

DigitValue(c) == (CHOOSE k \in 1..10 : Digits[k] = c) - 1

\* str::split(' '): the pieces between the separators, empty pieces included
RECURSIVE split_from(_, _, _, _)
split_from(line, k, piece, pieces) ==
  IF k > Len(line) THEN Append(pieces, piece)
  ELSE IF line[k] = " "
  THEN split_from(line, k + 1, <<>>, Append(pieces, piece))
  ELSE split_from(line, k + 1, Append(piece, line[k]), pieces)

split(line) == split_from(line, 1, <<>>, <<>>)

\* the digits of a token as a number, most significant first
RECURSIVE digits_value(_, _)
digits_value(digits, acc) ==
  IF digits = <<>> THEN acc
  ELSE digits_value(Tail(digits), acc * 10 + DigitValue(Head(digits)))

\* str::parse::<i64> on a well-formed token: optional sign, then digits
\* (a line of MaxLine characters is too short to overflow an i64)
parse_value(token) ==
  IF Head(token) = "-" THEN 0 - digits_value(Tail(token), 0)
  ELSE IF Head(token) = "+" THEN digits_value(Tail(token), 0)
  ELSE digits_value(token, 0)

\* str::parse::<i64> is Ok: the token is not empty, not a lone sign, and
\* all characters after an optional sign are digits
parse_ok(token) ==
  /\ token # <<>>
  /\ LET digits == IF Head(token) \in {"+", "-"} THEN Tail(token) ELSE token
     IN  /\ digits # <<>>
         /\ \A k \in 1..Len(digits) : IsDigit(digits[k])

\* variant of parse: w.parse().unwrap_or(0)
parse_lenient(token) ==
  [ok |-> TRUE, value |-> IF parse_ok(token) THEN parse_value(token) ELSE 0]

\* w.parse(): Ok(value) or Err
parse(token) ==
  [ok |-> parse_ok(token), value |-> IF parse_ok(token) THEN parse_value(token) ELSE 0]

InitMain ==
  /\ stdin \in Stdins
  /\ input = <<>>
  /\ n = 0
  /\ tree = <<>>
  /\ pc = "main_input"
  /\ last = NoCall
  /\ prev = Brief(NoCall)
  /\ out = <<>>
  /\ bi = 0
  /\ bread = {}
  /\ mode = "none"
  /\ lock = 0
  /\ proc = <<>>

stepVars == <<bi, bread, mode, lock, proc>>

\* let input = ...next().unwrap().unwrap(); let array = ...collect(); let n = array.len();
MainInput ==
  /\ pc = "main_input"
  /\ IF stdin = <<>>
     THEN /\ pc' = "panicked"
          /\ UNCHANGED <<input, n>>
     ELSE LET words  == split(stdin[1])
              parsed == [k \in 1..Len(words) |-> parse(words[k])]
          IN  IF \A k \in 1..Len(words) : parsed[k].ok
              THEN /\ input' = [k \in 1..Len(words) |-> parsed[k].value]
                   /\ n' = Len(words)
                   /\ pc' = "main_build"
              ELSE /\ pc' = "panicked"
                   /\ UNCHANGED <<input, n>>
  /\ UNCHANGED <<tree, last, prev, stdin, out, stepVars>>

\* let mut tree = segment_tree(array); println!("nodes = {:?}", tree);
MainBuild ==
  /\ pc = "main_build"
  /\ tree' = segment_tree(input)
  /\ input' = <<>>
  /\ last' = Call("build", 0, 0, 0, input, "ok", 0)
  /\ prev' = Brief(last)
  /\ out' = Append(out, <<"nodes", tree'>>)
  /\ pc' = "main_elements"
  /\ UNCHANGED <<n, stdin, stepVars>>

\* println!("elements = {:?}", (0..n).map(|i| nth(&tree, i)).collect::<Vec<_>>());
PrintElements(after) ==
  /\ IF \A i \in 0..(n - 1) : InBounds(tree, leaf(tree, i))
     THEN /\ out' = Append(out, <<"elements", [k \in 1..n |-> nth(tree, k - 1)]>>)
          /\ last' = Call("get", n - 1, 0, 0, <<>>, "ok", nth(tree, n - 1))
          /\ pc' = after
     ELSE /\ out' = out
          /\ last' = Call("get", n - 1, 0, 0, <<>>, "panic", 0)
          /\ pc' = "panicked"
  /\ prev' = Brief(last)
  /\ UNCHANGED <<input, n, tree, stdin, stepVars>>

MainElements == pc = "main_elements" /\ PrintElements("main_set")

\* println!("elements[2] = 42"); set_nth(&mut tree, 2, 42);
MainSet ==
  /\ pc = "main_set"
  /\ out' = Append(out, <<"elements[2] = 42", <<>>>>)
  /\ IF InBounds(tree, leaf(tree, 2))
     THEN /\ tree' = set_nth(tree, 2, 42)
          /\ last' = Call("set", 2, 0, 42, <<>>, "ok", 0)
          /\ pc' = "main_elements2"
     ELSE /\ tree' = tree
          /\ last' = Call("set", 2, 0, 42, <<>>, "panic", 0)
          /\ pc' = "panicked"
  /\ prev' = Brief(last)
  /\ UNCHANGED <<input, n, stdin, stepVars>>

MainElements2 == pc = "main_elements2" /\ PrintElements("main_sums")

\* println!("perfix sums: {:?}", (0..n).map(|i| sum(&tree, 0, i)).collect::<Vec<_>>());
MainSums ==
  /\ pc = "main_sums"
  /\ out' = Append(out, <<"perfix sums", [k \in 1..n |-> sum(tree, 0, k - 1)]>>)
  /\ last' = Call("sum", 0, n - 1, 0, <<>>, "ok", sum(tree, 0, n - 1))
  /\ prev' = Brief(last)
  /\ pc' = "main_done"
  /\ UNCHANGED <<input, n, tree, stdin, stepVars>>

NextMain ==
  MainInput \/ MainBuild \/ MainElements \/ MainSet \/ MainElements2 \/ MainSums

SpecMain == InitMain /\ [][NextMain]_vars

----------------------------------------------------------------------------
(* segment_tree run statement by statement *)

\* variant of pass_order: the range is not reversed
pass_order_forward(t) == [j \in 1..(Len(t) \div 2) |-> j - 1]

\* (0..(n / 2)).rev(): the internal indices in the order the pass visits them
pass_order(t) == [j \in 1..(Len(t) \div 2) |-> (Len(t) \div 2) - j]

InitBuild ==
  /\ input \in Inputs
  /\ n = Len(input)
  /\ tree = <<>>
  /\ pc = "b_alloc"
  /\ last = NoCall
  /\ prev = Brief(NoCall)
  /\ bi = 0
  /\ bread = {}
  /\ stdin = <<>>
  /\ out = <<>>
  /\ mode = "none"
  /\ lock = 0
  /\ proc = <<>>

otherVars == <<input, n, last, prev, stdin, out, mode, lock, proc>>

\* let n = elements.len().next_power_of_two() * 2 - 1; let mut tree = vec![0; n];
BuildAlloc ==
  /\ pc = "b_alloc"
  /\ tree' = [k \in 1..(next_power_of_two(Len(input)) * 2 - 1) |-> 0]
  /\ bi' = 0
  /\ pc' = "b_copy"
  /\ UNCHANGED <<bread, otherVars>>

\* one iteration of the first loop: tree[n / 2 + i] = value;
BuildCopy ==
  /\ pc = "b_copy"
  /\ bi < Len(input)
  /\ tree' = [tree EXCEPT ![(Len(tree) \div 2) + bi + 1] = input[bi + 1]]
  /\ bi' = bi + 1
  /\ UNCHANGED <<pc, bread, otherVars>>

\* the first loop ends, the second begins
BuildCopyDone ==
  /\ pc = "b_copy"
  /\ bi = Len(input)
  /\ bi' = 0
  /\ pc' = "b_pass"
  /\ UNCHANGED <<tree, bread, otherVars>>

\* one iteration of the second loop: tree[i] = tree[i * 2 + 1] + tree[i * 2 + 2];
BuildPass ==
  /\ pc = "b_pass"
  /\ bi < Len(pass_order(tree))
  /\ LET i == pass_order(tree)[bi + 1]
     IN  /\ tree' = recompute(tree, i)
         /\ bread' = bread \cup {i * 2 + 1, i * 2 + 2}
  /\ bi' = bi + 1
  /\ UNCHANGED <<pc, otherVars>>

\* the second loop ends and tree is returned
BuildReturn ==
  /\ pc = "b_pass"
  /\ bi = Len(pass_order(tree))
  /\ pc' = "b_done"
  /\ UNCHANGED <<tree, bi, bread, otherVars>>

NextBuild == BuildAlloc \/ BuildCopy \/ BuildCopyDone \/ BuildPass \/ BuildReturn

SpecBuild == InitBuild /\ [][NextBuild]_vars

----------------------------------------------------------------------------
(* set_nth run access by access, by two callers on one buffer *)

\* the two callers
Proc == {1, 2}

\* variant of walking: the loop condition is i > 1
walking_stops_early(i) == i > 1

\* while i > 0
walking(i) == i > 0

\* i = (i - 1) / 2
parent(i) == (i - 1) \div 2

\* 2 * i + 1
first_child(i) == 2 * i + 1

\* variant of second_child: the index of the first child
second_child_is_first(i) == 2 * i + 1

\* 2 * i + 2
second_child(i) == 2 * i + 2

\* a caller before its call: element index i < n, value, no local state yet
Caller(i, value) ==
  [i |-> i, value |-> value, pc |-> "start", cur |-> 0, a |-> 0, b |-> 0, steps |-> 0]

InitSteps ==
  /\ \E elements \in SeqsUpTo(MaxLen) \ {<<>>} :
       /\ tree = segment_tree(elements)
       /\ n = Len(elements)
  /\ input = <<>>
  /\ pc = "stepping"
  /\ last = NoCall
  /\ prev = Brief(NoCall)
  /\ mode \in {"racy", "mutex"}
  /\ lock = 0
  /\ proc \in [Proc -> {Caller(i, value) : i \in 0..(n - 1), value \in Value}]
  /\ stdin = <<>>
  /\ out = <<>>
  /\ bi = 0
  /\ bread = {}

restVars == <<input, n, pc, last, prev, stdin, out, bi, bread>>

\* the caller begins its call; under "mutex" it first takes the buffer
Acquire(p) ==
  /\ proc[p].pc = "start"
  /\ mode = "mutex" => lock = 0
  /\ lock' = IF mode = "mutex" THEN p ELSE lock
  /\ proc' = [proc EXCEPT ![p].pc = "leaf"]
  /\ UNCHANGED <<tree, mode, restVars>>

\* let mut i = tree.len() / 2 + i; tree[i] = value;
WriteLeaf(p) ==
  /\ proc[p].pc = "leaf"
  /\ tree' = [tree EXCEPT ![leaf(tree, proc[p].i) + 1] = proc[p].value]
  /\ proc' = [proc EXCEPT ![p].cur = leaf(tree, proc[p].i), ![p].pc = "test"]
  /\ UNCHANGED <<mode, lock, restVars>>

\* while i > 0 { i = (i - 1) / 2;
LoopTest(p) ==
  /\ proc[p].pc = "test"
  /\ proc' = IF walking(proc[p].cur)
             THEN [proc EXCEPT ![p].cur = parent(proc[p].cur), ![p].pc = "read1"]
             ELSE [proc EXCEPT ![p].pc = "return"]
  /\ UNCHANGED <<tree, mode, lock, restVars>>

\* the read of tree[2 * i + 1]
ReadFirst(p) ==
  /\ proc[p].pc = "read1"
  /\ proc' = [proc EXCEPT ![p].a = At(tree, first_child(proc[p].cur)), ![p].pc = "read2"]
  /\ UNCHANGED <<tree, mode, lock, restVars>>

\* the read of tree[2 * i + 2]
ReadSecond(p) ==
  /\ proc[p].pc = "read2"
  /\ proc' = [proc EXCEPT ![p].b = At(tree, second_child(proc[p].cur)), ![p].pc = "write"]
  /\ UNCHANGED <<tree, mode, lock, restVars>>

\* the write of tree[i]
WriteParent(p) ==
  /\ proc[p].pc = "write"
  /\ tree' = [tree EXCEPT ![proc[p].cur + 1] = proc[p].a + proc[p].b]
  /\ proc' = [proc EXCEPT ![p].steps = @ + 1, ![p].pc = "test"]
  /\ UNCHANGED <<mode, lock, restVars>>

\* set_nth returns; under "mutex" the caller gives the buffer back
Release(p) ==
  /\ proc[p].pc = "return"
  /\ lock' = IF mode = "mutex" THEN 0 ELSE lock
  /\ proc' = [proc EXCEPT ![p].pc = "done"]
  /\ UNCHANGED <<tree, mode, restVars>>

StepOf(p) ==
  \/ Acquire(p)
  \/ WriteLeaf(p)
  \/ LoopTest(p)
  \/ ReadFirst(p)
  \/ ReadSecond(p)
  \/ WriteParent(p)
  \/ Release(p)

NextSteps == \E p \in Proc : StepOf(p)

SpecSteps == InitSteps /\ [][NextSteps]_vars

\* each caller that can take a step eventually takes one
SpecStepsFair == SpecSteps /\ \A p \in Proc : WF_vars(StepOf(p))

----------------------------------------------------------------------------
(* A caller that keeps the precondition of set: element index < n *)

\* a vector of five elements: three padding leaves
FiveElements == <<3, 0, -42, 3, 0>>

InitContract ==
  /\ input \in Inputs \cup {FiveElements}
  /\ n = Len(input)
  /\ tree = <<>>
  /\ pc = "start"
  /\ last = NoCall
  /\ prev = Brief(NoCall)
  /\ AuxIdle

\* set_nth(&mut tree, i, value) with i < n
SetInRange == Set /\ last'.i < n

NextContract == Build \/ SetInRange \/ Get \/ Sum

SpecContract == InitContract /\ [][NextContract]_vars

----------------------------------------------------------------------------
(* Properties *)

\* the internal nodes are the slots 0 .. N/2 - 1
Internal(t) == 0..((Len(t) \div 2) - 1)

InternalSums(t) == \A k \in Internal(t) : At(t, k) = At(t, 2 * k + 1) + At(t, 2 * k + 2)

\* get(a) + ... + get(b)
RECURSIVE SumGet(_, _, _)
SumGet(t, a, b) == IF a > b THEN 0 ELSE nth(t, a) + SumGet(t, a + 1, b)

IsPow2(p) == \E k \in 0..p : 2 ^ k = p

SetReturned == last.op = "set" /\ last.outcome = "ok"

\* C1: once a tree is built, after every set call that has returned (and
\* after any later read) each internal node k equals the sum of its
\* children 2k+1 and 2k+2.
C1_AggregateInvariant == pc # "start" => InternalSums(tree)

\* a set with i < n that follows another set, on a tree of three levels
\* whose root is not zero
C1_Witness ==
  /\ SetReturned /\ last.i < n
  /\ prev.op = "set"
  /\ Len(tree) = 7
  /\ At(tree, 0) # 0

\* C2: for n >= 1 elements build returns a buffer of length N = 2P - 1, P
\* the smallest power of two >= n, whose leaf slot N/2 + i holds elements[i]
\* for i < n, whose other leaf slots hold 0 and whose internal nodes are the
\* sums of their children; for the test vector it is the tree of
\* test_representation.
C2_BuildResult ==
  (last.op = "build" /\ Len(last.arg) >= 1) =>
    LET e == last.arg
        N == Len(tree)
        P == (N + 1) \div 2
    IN  /\ last.outcome = "ok"
        /\ N = 2 * P - 1
        /\ IsPow2(P) /\ P >= Len(e) /\ (P = 1 \/ P \div 2 < Len(e))
        /\ \A i \in 0..(Len(e) - 1) : At(tree, (N \div 2) + i) = e[i + 1]
        /\ \A k \in ((N \div 2) + Len(e))..(N - 1) : At(tree, k) = 0
        /\ InternalSums(tree)
        /\ (e = TestElements => tree = TestTree)

\* build has returned for three elements, one padding leaf, non-zero root
C2_Witness ==
  /\ last.op = "build" /\ Len(last.arg) = 3
  /\ Len(tree) = 7
  /\ At(tree, 0) # 0

\* C3: in every tree reached from build by set calls, for
\* 0 <= first <= last < n, sum(first, last) returns
\* get(first) + ... + get(last).
C3_RangeSum ==
  (last.op = "sum" /\ last.i <= last.j /\ last.j < n) =>
    /\ last.outcome = "ok"
    /\ last.ret = SumGet(tree, last.i, last.j)

\* a sum over a proper range that starts after element 0, right after a set
C3_Witness ==
  /\ last.op = "sum" /\ 0 < last.i /\ last.i < last.j /\ last.j < n
  /\ prev.op = "set"
  /\ last.ret # 0

\* C4: a get(i) issued immediately after set(i, x), i < n, returns x.
C4_GetAfterSet ==
  (last.op = "get" /\ prev.op = "set" /\ prev.i = last.i /\ last.i < n) =>
    /\ last.outcome = "ok"
    /\ last.ret = prev.value

\* get(i) right after set(i, -42) on an element that is not the first
C4_Witness ==
  /\ last.op = "get" /\ prev.op = "set" /\ prev.i = last.i
  /\ 0 < last.i /\ last.i < n
  /\ prev.value = -42

\* C5: a set(i, x) with i < n leaves get(j) unchanged for every j < n, j # i.
C5_SetFrame ==
  [][(last'.op = "set" /\ last'.outcome = "ok" /\ last'.i < n) =>
       \A j \in 0..(n - 1) : j # last'.i => nth(tree', j) = nth(tree, j)]_vars

\* a set has returned and another element holds a different, non-zero value
C5_Witness ==
  /\ SetReturned /\ last.i < n
  /\ \E j \in 0..(n - 1) :
       j # last.i /\ nth(tree, j) # 0 /\ nth(tree, j) # last.value

\* C6: for n >= 1, after build and any set calls, sum(0, n - 1) equals the
\* sum of get(i) over all i < n, also when n is not a power of two.
C6_TotalSum ==
  (last.op = "sum" /\ n >= 1 /\ last.i = 0 /\ last.j = n - 1) =>
    last.ret = SumGet(tree, 0, n - 1)

\* the total of three elements (not a power of two) after a set, non-zero
C6_Witness ==
  /\ last.op = "sum" /\ n = 3 /\ last.i = 0 /\ last.j = 2
  /\ prev.op = "set"
  /\ last.ret # 0

\* C7: for every i < n, sum(i, i) equals get(i).
C7_PointQuery ==
  (last.op = "sum" /\ last.i = last.j /\ last.i < n) => last.ret = nth(tree, last.i)

\* a one-element range on a non-zero element that is not the first
C7_Witness ==
  /\ last.op = "sum" /\ last.i = last.j /\ 0 < last.i /\ last.i < n
  /\ last.ret # 0

\* C8: build called with no elements fails and returns no buffer.
C8_EmptyRejected ==
  (last.op = "build" /\ Len(last.arg) = 0) => (last.outcome = "panic" /\ tree = <<>>)

\* C9: on a tree built from n >= 1 elements, get(i) and set(i, value) with
\* i >= n fail, also for n <= i < P: get returns no padding value and set
\* writes none.
C9_IndexRejected ==
  (last.op \in {"get", "set"} /\ n >= 1 /\ last.i >= n) => last.outcome = "panic"

\* C10: on a tree built from n >= 1 elements, sum(first, last) fails
\* whenever first > last or last >= n and returns no value.
C10_RangeRejected ==
  (last.op = "sum" /\ n >= 1 /\ (last.i > last.j \/ last.j >= n)) =>
    last.outcome = "panic"

\* C11: for n >= 1 the buffer has length N = 2P - 1, P the smallest power of
\* two >= n (n = 5 gives P = 8, N = 15), from build on and after every set
\* call with index < n, and the padding leaf slots N/2 + n .. N - 1 hold 0
\* after build and after every such set call.
C11_LengthAndPadding ==
  (pc # "start" /\ n >= 1) =>
    LET N == Len(tree)
        P == (N + 1) \div 2
    IN  /\ N = 2 * P - 1
        /\ IsPow2(P) /\ P >= n /\ (P = 1 \/ P \div 2 < n)
        /\ (n = 5 => (P = 8 /\ N = 15))
        /\ \A k \in ((N \div 2) + n)..(N - 1) : At(tree, k) = 0

\* two sets in a row have returned on the tree of five elements
C11_Witness ==
  /\ SetReturned /\ prev.op = "set"
  /\ n = 5 /\ Len(tree) = 15
  /\ last.value # 0

\* the slots set_nth may write for the leaf slot k: k and its ancestors
RECURSIVE PathToRoot(_)
PathToRoot(k) == IF k = 0 THEN {0} ELSE {k} \cup PathToRoot((k - 1) \div 2)

\* C13: a set(i, value) that returns changes no slot other than the leaf
\* slot N/2 + i and its ancestors (parent(k) = (k - 1) / 2 up to slot 0), and
\* does not change the length of the buffer.
C13_WriteFrame ==
  [][(last'.op = "set" /\ last'.outcome = "ok") =>
       /\ Len(tree') = Len(tree)
       /\ \A k \in 0..(Len(tree) - 1) :
            k \notin PathToRoot((Len(tree) \div 2) + last'.i) =>
              At(tree', k) = At(tree, k)]_vars

\* a set of a non-zero value has returned on a tree of three levels and a
\* slot off the path of the written leaf is not zero
C13_Witness ==
  /\ SetReturned /\ last.value # 0
  /\ Len(tree) = 7
  /\ \E k \in 0..6 :
       k \notin PathToRoot(3 + last.i) /\ At(tree, k) # 0

RECURSIVE Log2(_)
Log2(p) == IF p <= 1 THEN 0 ELSE 1 + Log2(p \div 2)

\* the sum of the slots read by a set of invocations
RECURSIVE SumReads(_, _)
SumReads(t, calls) ==
  IF calls = {} THEN 0
  ELSE LET c == CHOOSE x \in calls : TRUE
       IN  (IF c.branch = "contained" THEN At(t, c.i) ELSE 0)
           + SumReads(t, calls \ {c})

\* C16: for all arguments of sum, inside the precondition or not, the
\* recursion ends, nests at most log2(P) + 1 deep, splits no node with
\* l = r, reads only slots 0 .. N - 1, visits no descendant of a node whose
\* segment is disjoint from or contained in [first, last], and the value
\* returned is the sum of the slots read.
C16_BoundedRecursion ==
  (last.op = "sum") =>
    LET N == Len(tree)
        P == (N + 1) \div 2
        calls == sum_calls(tree, last.i, last.j)
    IN  /\ last.outcome = "ok"
        /\ \A c \in calls :
             /\ c.depth <= Log2(P) + 1
             /\ c.i \in 0..(N - 1)
             /\ c.l <= c.r
             /\ (c.branch = "split" => c.l < c.r)
             /\ (c.branch # "split" =>
                   \A x \in calls : x.i \notin {2 * c.i + 1, 2 * c.i + 2})
        /\ last.ret = SumReads(tree, calls)

\* a sum whose last index is beyond n, on a tree of three levels, that takes
\* all three branches and reaches a leaf
C16_Witness ==
  /\ last.op = "sum" /\ last.j >= n
  /\ Len(tree) = 7
  /\ LET calls == sum_calls(tree, last.i, last.j)
     IN  /\ \E c \in calls : c.branch = "disjoint"
         /\ \E c \in calls : c.branch = "contained" /\ c.depth = 3
         /\ \E c \in calls : c.branch = "split" /\ c.depth = 2
  /\ last.ret # 0

\* line[a..b] is a word of the line: a maximal run without a separator
IsWord(line, a, b) ==
  /\ a <= b
  /\ \A k \in a..b : line[k] # " "
  /\ (a = 1 \/ line[a - 1] = " ")
  /\ (b = Len(line) \/ line[b + 1] = " ")

\* a word that is not an optionally signed run of digits
NonNumericWord(line, a, b) ==
  /\ IsWord(line, a, b)
  /\ LET from == IF line[a] \in {"+", "-"} THEN a + 1 ELSE a
     IN  from > b \/ \E k \in from..b : ~IsDigit(line[k])

\* no line, an empty line, or a line with a non-numeric word
Malformed(in) ==
  \/ in = <<>>
  \/ in[1] = <<>>
  \/ \E a \in 1..Len(in[1]), b \in 1..Len(in[1]) : NonNumericWord(in[1], a, b)

\* C12: when the input line is missing, empty or holds a non-numeric word,
\* main stops before segment_tree is called: no tree exists and nothing has
\* been printed.
C12_MalformedRejected ==
  Malformed(stdin) =>
    /\ pc \in {"main_input", "panicked"}
    /\ tree = <<>>
    /\ out = <<>>

\* main has panicked on a line that holds a number and a non-numeric word
C12_Witness ==
  /\ pc = "panicked"
  /\ stdin # <<>>
  /\ \E a \in 1..Len(stdin[1]), b \in 1..Len(stdin[1]) :
       NonNumericWord(stdin[1], a, b)
  /\ \E a \in 1..Len(stdin[1]), b \in 1..Len(stdin[1]) :
       IsWord(stdin[1], a, b) /\ ~NonNumericWord(stdin[1], a, b)

\* C17: once main has accepted its line and built the tree, every call it
\* makes has its indices below n and the run does not panic.
C17_MainCallsInRange ==
  (pc \notin {"main_input", "main_build"} /\ tree # <<>>) =>
    /\ pc # "panicked"
    /\ (last.op \in {"set", "get"} => last.i < n)
    /\ (last.op = "sum" => (last.i <= last.j /\ last.j < n))

\* C15: when the backward pass is about to compute index k, slots 2k+1 and
\* 2k+2 hold the values they have in the returned tree and slot k has not
\* been read as a child; nothing is read as a child before the pass, and
\* the tree returned is the one segment_tree computes.
C15_BackwardPass ==
  /\ (pc \in {"b_alloc", "b_copy"} => bread = {})
  /\ (pc = "b_pass" /\ bi < Len(pass_order(tree))) =>
       LET k     == pass_order(tree)[bi + 1]
           final == segment_tree(input)
       IN  /\ k = (Len(tree) \div 2) - 1 - bi
           /\ At(tree, 2 * k + 1) = At(final, 2 * k + 1)
           /\ At(tree, 2 * k + 2) = At(final, 2 * k + 2)
           /\ k \notin bread
  /\ (pc = "b_done" => tree = segment_tree(input))

\* the pass is about to compute the root of a tree of three levels whose
\* two children are not zero
C15_Witness ==
  /\ pc = "b_pass" /\ bi = 2
  /\ Len(tree) = 7
  /\ bread = {3, 4, 5, 6}
  /\ At(tree, 1) # 0 /\ At(tree, 2) # 0

AllDone == \A p \in Proc : proc[p].pc = "done"

\* the level of slot k: 0 for the root, log2(P) for the leaves
Level(k) == Log2(k + 1)

\* what C14 says of one caller in one state
WalkBounded(p) ==
  LET P      == (Len(tree) + 1) \div 2
      w      == proc[p]
      inLoop == w.pc \in {"test", "read1", "read2", "write", "return", "done"}
  IN  /\ w.steps <= Log2(P)
      /\ inLoop =>
           /\ w.cur \in PathToRoot((Len(tree) \div 2) + w.i)
           /\ (w.pc \in {"test", "return", "done"} => Level(w.cur) = Log2(P) - w.steps)
           /\ (w.pc \in {"read1", "read2", "write"} =>
                 Level(w.cur) = Log2(P) - w.steps - 1)
      /\ (w.pc \in {"return", "done"} => (w.steps = Log2(P) /\ w.cur = 0))
      /\ (P = 1 => w.steps = 0)
      /\ (mode = "mutex" /\ w.pc = "test" /\ w.steps > 0) =>
           At(tree, w.cur) = At(tree, 2 * w.cur + 1) + At(tree, 2 * w.cur + 2)

\* C14: the walk of set_nth ends; it starts at the leaf slot N/2 + i, takes
\* exactly log2(P) parent steps, one level up each, every step (run without
\* interference) leaving the ancestor equal to the sum of its two children,
\* the last one at the root; for P = 1 it takes no step.
C14_WalkTerminates ==
  /\ [](\A p \in Proc : WalkBounded(p))
  /\ <>AllDone

\* both calls have returned after two parent steps each, on different leaves
C14_Witness ==
  /\ AllDone
  /\ Len(tree) = 7
  /\ \A p \in Proc : proc[p].steps = 2 /\ proc[p].cur = 0
  /\ proc[1].i # proc[2].i
  /\ At(tree, 0) # 0

\* C18: when each set_nth call holds the buffer for its whole run, the
\* internal nodes equal the sums of their children whenever no call is
\* running, in particular after both calls; a state after both calls with
\* an internal node that differs from the sum of its children arises only
\* when the accesses of the two calls interleave.
C18_MutexKeepsSums ==
  /\ (mode = "mutex" /\ lock = 0) => InternalSums(tree)
  /\ (AllDone /\ ~InternalSums(tree)) => mode = "racy"

\* two interleaved calls on different leaves have returned and an internal
\* node differs from the sum of its children
C18_Witness ==
  /\ mode = "racy"
  /\ AllDone
  /\ proc[1].i # proc[2].i
  /\ ~InternalSums(tree)

====
